---- MODULE Spec2Model ----
(***************************************************************************)
(* Per-call session orchestrator of the voice agent: the media-stream      *)
(* WebSocket handler (routes/incoming-call.js), the inactivity handler     *)
(* (handlers/inactivity.js) and the tool handlers (handlers/functions.js). *)
(* One call is modelled: its closure variables, the two WebSocket legs,    *)
(* the Node.js timer table and the asynchronous work it has in flight.     *)
(***************************************************************************)
EXTENDS Integers, Sequences, FiniteSets, TLC

\* ------------------------------------------------------------------ bounds
MaxDeltas == 3      \* audio deltas the AI provider sends in one call
MaxStarts == 2      \* telephony `start` events in one call
MaxTs     == 2      \* largest telephony media timestamp
MaxCalls  == 2      \* function-call events in one call
MaxSpeech == 2      \* speech_started events in one call
MaxDone   == 4      \* response.done / response.audio.done events in one call
MaxStops  == 1      \* telephony `stop` events in one call
MaxTime   == 60000  \* the clock stops here (ms)
MaxLog    == 3      \* conversation-log entries followed

\* ------------------------------------------------------- program constants
FIRST_WARNING == 30000
FINAL_WARNING == 45000
HANGUP        == 60000
SESSION_INIT_DELAY == 100
END_CALL_DELAY     == 8000

\* The clock advances in steps of the smallest inactivity interval.
Quantum == FINAL_WARNING - FIRST_WARNING

\* ------------------------------------------------------------ null values
NoSid   == 0        \* streamSid / callSid null
NoItem  == 0        \* lastAssistantItem null, or a delta without item_id
NoTs    == -1       \* responseStartTimestampTwilio null
NoNumber == 0       \* callerNumber null
NoTimer == [kind |-> "none", at |-> 0, k |-> 0]

StreamSids == 1..MaxStarts
ItemIds    == 1..2
ToolNames  == {"save_caller_info", "route_call", "get_pricing_details",
               "get_interface_screenshots", "end_call"}
\* Names the AI provider may put in a function-call event.
CallNames  == ToolNames \cup {"unknown_tool"}
\* Shapes of the `arguments` string: a JSON object with the tool's fields,
\* the empty object "{}", and a string that is not JSON.
ArgShapes  == {"full", "empty", "malformed"}
\* The two event types that arm the inactivity timer, and what the response
\* they report on generated.
DoneTypes  == {"response.audio.done", "response.done"}
ResponseContents == {"audio", "text", "function_call"}

VARIABLES
    \* --- closure state of the media-stream handler
    streamSid, latestMediaTimestamp, lastAssistantItem, markQueue,
    responseStartTimestampTwilio, sessionInitialized,
    shouldSendInitialGreeting, pendingAudioDeltas, callSid, callerNumber,
    callState,
    \* --- inactivity handler closure
    inactivityTimer, inactivityWarningCount,
    \* --- module state of services/twilio.js
    twilioClient,
    \* --- environment: sockets, timer table, clock, work in flight
    aiState,          \* readyState of openAiWs
    connOpen,         \* telephony connection not yet closed
    timers,           \* pending setTimeout callbacks
    now,              \* clock (ms)
    exactTimers,      \* TRUE: timers fire exactly at their deadline
    fetching,         \* tool handlers suspended in `await fetch`
    hangingUp,        \* end-call callbacks suspended in `await endCall`
    lookingUp,        \* phone lookups suspended in `await lookupPropertyByPhone`
    marksInFlight,    \* marks sent to telephony and not yet acknowledged
    \* --- what the last handler emitted
    aiOut,            \* messages passed to openAiWs.send by the last step
    twOut,            \* messages passed to connection.send by the last step
    lastEvent,        \* the event or callback the last step handled
    \* --- history
    deltaCount,       \* audio deltas received so far (payloads are 1, 2, ...)
    mediaSent,        \* payloads of the `media` commands sent to telephony
    startCount, speechCount, doneCount, stopCount,
    fcCount,          \* function-call events received (call_id = 1, 2, ...)
    fcLog,            \* per call_id: name, outcome of its handling, replies
    greetingCount,    \* greeting directives sent
    saveCount,        \* runs of saveTranscript
    transcripts,      \* the records saveTranscript built, in order
    termCount,        \* hang-ups the provider carried out and direct closes run
    fireCount,        \* firings of the inactivity timer
    armedAt,          \* time at which the inactivity timer was last armed
    silenceFrom,      \* last audio-turn completion with warning count 0
    \* --- caller-speech capture and the conversation log
    isCapturingCallerSpeech,
    callerAudioChunks,  \* buffered chunks, counted up to one: the code
                        \* tests the buffer for emptiness only
    transcribing,       \* transcribeCallerAudio calls awaiting the service
    conversationLog,    \* entries [role, content, timestamp]
    \* --- module state of routes/incoming-call.js and what the call took
    callMeta,           \* the call identifiers a webhook body is stored under
    webhookBody,        \* the body this call attached ("null" if none)
    \* --- the same two in the run where no other call receives an event
    soloMeta, soloWebhookBody,
    \* --- persistence of the call records
    storageConfig,      \* [gcs, email]: bucket set, mail transporter set
    persisting,         \* runs of saveTranscript suspended in an await
    written,            \* write attempts so far: [id, target, ok]
    \* --- playback history
    responseStartedAt,  \* media time at the first forwarded delta of the
                        \* response now playing (NoTs if none)
    staleAcks           \* mark acknowledgments in flight for marks that a
                        \* barge-in has discarded

vars == <<streamSid, latestMediaTimestamp, lastAssistantItem, markQueue,
          responseStartTimestampTwilio, sessionInitialized,
          shouldSendInitialGreeting, pendingAudioDeltas, callSid,
          callerNumber, callState,
          inactivityTimer, inactivityWarningCount, twilioClient,
          aiState, connOpen, timers, now, exactTimers, fetching, hangingUp,
          lookingUp,
          marksInFlight, aiOut, twOut, lastEvent, deltaCount, mediaSent,
          startCount,
          speechCount, doneCount, stopCount, fcCount, fcLog, greetingCount,
          saveCount, transcripts, termCount, fireCount, armedAt, silenceFrom,
          isCapturingCallerSpeech, callerAudioChunks, transcribing,
          conversationLog, callMeta, webhookBody, soloMeta, soloWebhookBody,
          storageConfig, persisting, written, responseStartedAt, staleAcks>>

playbackGhosts == <<responseStartedAt, staleAcks>>

persistVars == <<storageConfig, persisting, written>>

sharedVars == <<callMeta, webhookBody, soloMeta, soloWebhookBody>>

captureVars == <<isCapturingCallerSpeech, callerAudioChunks, transcribing,
                 conversationLog>>

sessionVars == <<streamSid, latestMediaTimestamp, lastAssistantItem, markQueue,
                 responseStartTimestampTwilio, sessionInitialized,
                 shouldSendInitialGreeting, pendingAudioDeltas, callSid,
                 callerNumber>>
inactivityVars == <<inactivityTimer, inactivityWarningCount, armedAt, silenceFrom>>
historyVars == <<deltaCount, mediaSent, startCount, speechCount, doneCount,
                 stopCount, fcCount, fcLog, greetingCount, saveCount,
                 transcripts, termCount,
                 fireCount>>

\* ---------------------------------------------------------------- messages
Msg(t, a, b) == [type |-> t, a |-> a, b |-> b]
SessionUpdate    == Msg("session.update", 0, 0)
GreetingItem     == Msg("conversation.item.create:greeting", 0, 0)
ResponseCreate   == Msg("response.create", 0, 0)
Truncate(item, ms) == Msg("conversation.item.truncate", item, ms)
FunctionOutput(id, payload) == Msg("function_call_output:" \o payload, id, 0)
InactivityPrompt(n) == Msg("conversation.item.create:inactivity", n, 0)
AudioAppend(ts)  == Msg("input_audio_buffer.append", ts, 0)
MediaCmd(sid, payload) == Msg("media", sid, payload)
MarkCmd(sid)     == Msg("mark", sid, 0)
ClearCmd(sid)    == Msg("clear", sid, 0)

Min(S) == CHOOSE x \in S : \A y \in S : x <= y


\* ------------------------------------------------------------ timer table
\* setTimeout: a fresh handle for a callback of the given kind, due after
\* `delay`; k tells apart callbacks of one kind with one deadline.
NewTimer(table, kind, delay) ==
    LET at   == now + delay
        used == {t.k : t \in {x \in table : x.kind = kind /\ x.at = at}}
    IN  [kind |-> kind, at |-> at,
         k |-> Min({n \in 0..Cardinality(table) : n \notin used})]

\* clearTimeout: the callback of handle h no longer runs.
ClearTimeout(table, h) == table \ {h}

\* A pending callback may run: at its deadline under exact timers, at any
\* later moment otherwise.
Due(t) == t \in timers /\ (exactTimers => t.at <= now)

\* ----------------------------------------------------- inactivity handler
\* (bug variant: three equal intervals)
InactivityTimeout_Equal(count) == FIRST_WARNING
InactivityTimeout(count) ==
    IF count = 0 THEN FIRST_WARNING
    ELSE IF count = 1 THEN FINAL_WARNING - FIRST_WARNING
    ELSE HANGUP - FINAL_WARNING

\* startInactivityTimer: the table without the old timer, and the new handle.
\* (bug variant: the pending timer left running when a new one is armed)
StartCleared_NoClear == timers
StartCleared == IF inactivityTimer # NoTimer
                THEN ClearTimeout(timers, inactivityTimer) ELSE timers
StartHandle  == NewTimer(StartCleared, "inactivity",
                         InactivityTimeout(inactivityWarningCount))

\* resetInactivityTimer / clearTimers: the table after clearing the timer.
\* (bug variant: the handle dropped without clearTimeout)
ResetCleared_NoClear == timers
ResetCleared == IF inactivityTimer # NoTimer
                THEN ClearTimeout(timers, inactivityTimer) ELSE timers

\* The prompt of a firing that raised the warning count to n.
PromptKind(n) == IF n = 1 THEN 1 ELSE IF n = 2 THEN 2 ELSE 3

\* ------------------------------------------------------------------- Init
\* createInitialCallState.  JavaScript values are written as strings: "null"
\* is null, "true" / "false" the booleans, "" the empty string; a field that
\* handleEndCall adds later starts absent ("undefined").
\* `if (callSid && callMeta[callSid]) webhookBody = callMeta[callSid].webhookBody`
AttachedBody(meta, sid, body) ==
    IF sid # NoSid /\ sid \in meta THEN "body" ELSE body

\* `delete callMeta[callSid]`, which `start` does after attaching.
MetaAfterStart(meta, sid) == IF sid # NoSid THEN meta \ {sid} ELSE meta

\* The From number of the stored webhook body.
WebhookFrom == 1

InitCallState ==
    [property_id |-> "null", property_name |-> "null", caller_name |-> "null",
     caller_email |-> "null", issue_description |-> "null",
     is_existing_client |-> "null", is_logged_in |-> "null",
     routing |-> "null", current_state |-> "A", sales_need |-> "null",
     demo_choice |-> "null", demo_preferred_time |-> "null",
     phone_lookup_performed |-> FALSE, phone_lookup_found |-> FALSE,
     phone_lookup_source |-> "null",
     disconnected_by |-> "null", disconnect_reason |-> "null",
     ended_by_agent |-> FALSE, end_reason |-> "null"]

\* The collected facts among the fields of callState.
FactFields == {"property_id", "property_name", "caller_name", "caller_email",
               "issue_description", "is_existing_client", "is_logged_in",
               "routing", "sales_need", "demo_choice", "demo_preferred_time",
               "current_state"}

InitCommon ==
    /\ streamSid = NoSid
    /\ latestMediaTimestamp = 0
    /\ lastAssistantItem = NoItem
    /\ markQueue = <<>>
    /\ responseStartTimestampTwilio = NoTs
    /\ sessionInitialized = FALSE
    /\ shouldSendInitialGreeting = TRUE
    /\ pendingAudioDeltas = <<>>
    /\ callSid \in {NoSid, 1}          \* callSid query parameter of the URL
    \* the `from` query parameter: the webhook route writes both or neither
    /\ callerNumber = IF callSid # NoSid THEN 1 ELSE NoNumber
    /\ callState = InitCallState
    /\ inactivityTimer = NoTimer
    /\ inactivityWarningCount = 0
    /\ twilioClient \in BOOLEAN        \* credentials configured or not
    /\ aiState = "connecting"
    /\ connOpen = TRUE
    /\ timers = {}
    /\ now = 0
    /\ fetching = {}
    /\ hangingUp = 0
    /\ lookingUp = 0
    /\ marksInFlight = 0
    /\ aiOut = <<>>
    /\ twOut = <<>>
    /\ lastEvent = "connect"
    /\ deltaCount = 0
    /\ mediaSent = <<>>
    /\ startCount = 0
    /\ speechCount = 0
    /\ doneCount = 0
    /\ stopCount = 0
    /\ fcCount = 0
    /\ fcLog = <<>>
    /\ greetingCount = 0
    /\ saveCount = 0
    /\ transcripts = <<>>
    /\ termCount = 0
    /\ fireCount = 0
    /\ armedAt = 0
    /\ silenceFrom = 0
    /\ isCapturingCallerSpeech = FALSE
    /\ callerAudioChunks = 0
    /\ transcribing = 0
    /\ conversationLog = <<>>
    /\ persisting = {}
    /\ written = {}
    /\ responseStartedAt = NoTs
    /\ staleAcks = 0

\* The webhook route stores the body under the CallSid it puts in the
\* stream URL.
UrlMeta == callMeta = IF callSid # NoSid THEN {callSid} ELSE {}
\* The handler attaches the body stored under the URL's callSid, if any.
InitAttach ==
    /\ soloMeta = callMeta
    /\ webhookBody = AttachedBody(callMeta, callSid, "null")
    /\ soloWebhookBody = webhookBody
\* A deployment with the bucket and the mail transporter configured ...
FullConfig == storageConfig = [gcs |-> TRUE, email |-> TRUE]
\* ... or any deployment.
AnyConfig == storageConfig \in [gcs : BOOLEAN, email : BOOLEAN]
Init == InitCommon /\ UrlMeta /\ InitAttach /\ FullConfig /\ exactTimers = FALSE
InitTimed == InitCommon /\ UrlMeta /\ InitAttach /\ FullConfig /\ exactTimers = TRUE
InitPersist ==
    InitCommon /\ UrlMeta /\ InitAttach /\ AnyConfig /\ exactTimers = FALSE
\* The stream URL reaches the handler without its query parameters, the
\* webhook body being stored under the call's identifier.
InitShared ==
    /\ InitCommon /\ callSid = NoSid /\ callMeta = {1}
    /\ InitAttach /\ FullConfig /\ exactTimers = FALSE
\* The audio path reads neither the provider client nor the call
\* identifier: one value of each is enough.
InitAudio == Init /\ twilioClient /\ callSid = 1

\* The AI leg delivers events while its socket is open or closing.
AiReceiving == aiState \in {"open", "closing"}


\* ------------------------------------------- closures of the media handler
\* sendInitialConversationItem: the greeting item, then response.create.
sendInitialConversationItem == <<GreetingItem, ResponseCreate>>

\* The join of the greeting, tested where the session is initialized ...
\* (bug variant: the session side of the join forgotten)
GreetingDueAtInit_NoJoin == FALSE
GreetingDueAtInit == streamSid # NoSid /\ shouldSendInitialGreeting
\* ... and where `start` is handled.
GreetingDueAtStart == sessionInitialized /\ shouldSendInitialGreeting

\* `!responseStartTimestampTwilio`: null and 0 are both falsy.
Falsy(ts) == ts = NoTs \/ ts = 0

\* The guard of handleSpeechStartedEvent.
\* (bug variant: the mark queue not consulted)
BargeInGuard_NoQueueCheck == responseStartTimestampTwilio # NoTs
BargeInGuard == Len(markQueue) > 0 /\ responseStartTimestampTwilio # NoTs

\* handleSpeechStartedEvent.  Leaves aiOut', twOut' and the three barge-in
\* variables defined.
handleSpeechStartedEvent ==
    IF BargeInGuard
    THEN /\ aiOut' = IF lastAssistantItem # NoItem
                     THEN <<Truncate(lastAssistantItem,
                             latestMediaTimestamp - responseStartTimestampTwilio)>>
                     ELSE <<>>
         /\ twOut' = <<ClearCmd(streamSid)>>
         /\ markQueue' = <<>>
         /\ lastAssistantItem' = NoItem
         /\ responseStartTimestampTwilio' = NoTs
    ELSE /\ aiOut' = <<>>
         /\ twOut' = <<>>
         /\ UNCHANGED <<markQueue, lastAssistantItem, responseStartTimestampTwilio>>

\* The pending deltas as `media` commands, in the order forEach visits them.
\* (bug variant: the buffer replayed newest first)
FlushCmds_Reversed(sid, pending) ==
    [i \in 1..Len(pending) |-> MediaCmd(sid, pending[Len(pending) + 1 - i])]
FlushCmds(sid, pending) == [i \in 1..Len(pending) |-> MediaCmd(sid, pending[i])]

\* The audio payloads of the `media` commands among cmds, in order.
PayloadsOf(cmds) ==
    LET media == SelectSeq(cmds, LAMBDA m : m.type = "media")
    IN  [i \in 1..Len(media) |-> media[i].b]

\* `x || dflt` on a field of callState.
OrElse(v, dflt) == IF v \in {"null", "", "undefined"} THEN dflt ELSE v

\* The phoneLookup block of the record saveTranscript builds from callState.
PhoneLookupOf(cs) ==
    [performed |-> cs.phone_lookup_performed,
     found |-> cs.phone_lookup_found,
     source |-> cs.phone_lookup_source,
     property_id |-> IF cs.phone_lookup_found THEN cs.property_id ELSE "null",
     property_name |-> IF cs.phone_lookup_found THEN cs.property_name ELSE "null"]

\* The disconnectInfo block of the record.
DisconnectInfoOf(cs) ==
    [disconnected_by |-> OrElse(cs.disconnected_by, "unknown"),
     disconnect_reason |-> OrElse(cs.disconnect_reason, "unknown"),
     ended_by_agent |-> cs.ended_by_agent]

\* The record saveTranscript serializes before its first await.
TranscriptOf(cs) ==
    [phoneLookup |-> PhoneLookupOf(cs), disconnectInfo |-> DisconnectInfoOf(cs),
     callerNumber |-> IF callerNumber # NoNumber THEN callerNumber
                      ELSE IF webhookBody # "null" THEN WebhookFrom
                      ELSE NoNumber,
     webhookBody |-> webhookBody]

\* ------------------------------------------------------------ persistence
\* A run of saveTranscript goes through saveTranscriptToStorage,
\* saveBackupTranscript and sendCallTranscriptEmail, suspended where one of
\* them awaits the bucket or the mail transporter.  Each operator gives the
\* write attempts made and the stage the run is suspended at ("done" when
\* it has ended).  fs1 and fs2 are the outcomes of the local writes.
Attempt(id, target, ok) == [id |-> id, target |-> target, ok |-> ok]
Stages == {"primary", "backup_gcs", "email_send"}
Targets == {"gcs", "local", "backup_local", "backup_gcs", "email"}

\* sendCallTranscriptEmail up to its await.
FromEmail(cfg) == IF cfg.email THEN "email_send" ELSE "done"

\* saveBackupTranscript up to its await: the local backup first.
FromBackup(id, cfg, fs2) ==
    [writes |-> {Attempt(id, "backup_local", fs2)},
     stage |-> IF cfg.gcs THEN "backup_gcs" ELSE FromEmail(cfg)]

\* The local fallback of saveTranscriptToStorage, then the backup.
FromLocal(id, cfg, fs1, fs2) ==
    [writes |-> {Attempt(id, "local", fs1)} \cup FromBackup(id, cfg, fs2).writes,
     stage |-> FromBackup(id, cfg, fs2).stage]

\* saveTranscriptToStorage from its start.
FromStore(id, cfg, fs1, fs2) ==
    IF cfg.gcs THEN [writes |-> {}, stage |-> "primary"]
    ELSE FromLocal(id, cfg, fs1, fs2)

\* The run after the bucket has answered the primary upload: a failure is
\* caught and falls through to the local file.
\* (bug variant: the failure of the upload ends the run)
AfterPrimary_Rethrow(id, cfg, ok, fs1, fs2) ==
    IF ok
    THEN [writes |-> {Attempt(id, "gcs", TRUE)} \cup FromBackup(id, cfg, fs2).writes,
          stage |-> FromBackup(id, cfg, fs2).stage]
    ELSE [writes |-> {Attempt(id, "gcs", FALSE)}, stage |-> "done"]
AfterPrimary(id, cfg, ok, fs1, fs2) ==
    IF ok
    THEN [writes |-> {Attempt(id, "gcs", TRUE)} \cup FromBackup(id, cfg, fs2).writes,
          stage |-> FromBackup(id, cfg, fs2).stage]
    ELSE [writes |-> {Attempt(id, "gcs", FALSE)}
                       \cup FromLocal(id, cfg, fs1, fs2).writes,
          stage |-> FromLocal(id, cfg, fs1, fs2).stage]

\* The run resumed at the stage it was suspended at, the awaited call
\* having succeeded or failed.
Resume(job, cfg, ok, fs1, fs2) ==
    CASE job.stage = "primary" -> AfterPrimary(job.id, cfg, ok, fs1, fs2)
      [] job.stage = "backup_gcs" ->
            [writes |-> {Attempt(job.id, "backup_gcs", ok)},
             stage |-> FromEmail(cfg)]
      [] job.stage = "email_send" ->
            [writes |-> {Attempt(job.id, "email", ok)}, stage |-> "done"]

\* The suspended runs with `job` replaced by its continuation.
Suspended(jobs, id, stage) ==
    IF stage = "done" THEN jobs ELSE jobs \cup {[id |-> id, stage |-> stage]}

\* saveTranscript, run with callState as the calling handler has left it:
\* one more run of the finalization, one more record, and the persistence
\* of that record as far as its first await.  (The fallbacks of lines
\* 585-593 find callerNumber and callSid set whenever webhookBody is.)
saveTranscript(cs) ==
    /\ saveCount' = saveCount + 1
    /\ transcripts' = Append(transcripts, TranscriptOf(cs))
    /\ \E fs1, fs2 \in BOOLEAN :
          LET run == FromStore(saveCount', storageConfig, fs1, fs2) IN
          /\ written' = written \cup run.writes
          /\ persisting' = Suspended(persisting, saveCount', run.stage)
    /\ UNCHANGED storageConfig

\* The bucket or the mail transporter answers a suspended run.
PersistStep(job, ok, fs1, fs2) ==
    /\ job \in persisting
    /\ LET run == Resume(job, storageConfig, ok, fs1, fs2) IN
       /\ written' = written \cup run.writes
       /\ persisting' = Suspended(persisting \ {job}, job.id, run.stage)
    /\ aiOut' = <<>> /\ twOut' = <<>>
    /\ lastEvent' = "persist.settled"
    /\ UNCHANGED <<sessionVars, callState, inactivityVars, historyVars,
                   aiState, connOpen, timers, now, exactTimers, fetching,
                   hangingUp, marksInFlight, twilioClient, lookingUp,
                   captureVars, sharedVars, storageConfig, playbackGhosts>>

envVars == <<aiState, connOpen, timers, now, exactTimers, fetching, hangingUp,
             marksInFlight, twilioClient, lookingUp, captureVars, sharedVars,
             playbackGhosts>>

\* ---------------------------------------------------------- AI leg: open
\* openAiWs.on('open'): schedules initializeSession.
OnAiOpen ==
    /\ aiState = "connecting"
    /\ aiState' = "open"
    /\ timers' = timers \cup {NewTimer(timers, "init", SESSION_INIT_DELAY)}
    /\ aiOut' = <<>> /\ twOut' = <<>>
    /\ lastEvent' = "open"
    /\ UNCHANGED <<sessionVars, callState, inactivityVars, historyVars,
                   connOpen, now, exactTimers, fetching, hangingUp,
                   marksInFlight, twilioClient, lookingUp, captureVars, sharedVars, persistVars, playbackGhosts>>

\* initializeSession, run by its timer.
initializeSession ==
    \E t \in timers :
        /\ t.kind = "init" /\ Due(t)
        /\ timers' = timers \ {t}
        /\ sessionInitialized' = TRUE
        /\ IF GreetingDueAtInit
           THEN /\ shouldSendInitialGreeting' = FALSE
                /\ aiOut' = <<SessionUpdate>> \o sendInitialConversationItem
                /\ greetingCount' = greetingCount + 1
           ELSE /\ aiOut' = <<SessionUpdate>>
                /\ UNCHANGED <<shouldSendInitialGreeting, greetingCount>>
        /\ twOut' = <<>>
        /\ lastEvent' = "initializeSession"
        /\ UNCHANGED <<streamSid, latestMediaTimestamp, lastAssistantItem,
                       markQueue, responseStartTimestampTwilio,
                       pendingAudioDeltas, callSid, callerNumber, callState, inactivityVars,
                       aiState, connOpen, now, exactTimers, fetching,
                       hangingUp, marksInFlight, twilioClient, lookingUp, captureVars, sharedVars, persistVars, playbackGhosts,
                       deltaCount, mediaSent, startCount, speechCount,
                       doneCount, stopCount, fcCount, fcLog, saveCount, transcripts,
                       termCount, fireCount>>

\* ------------------------------------------------- telephony leg: messages
\* What the lookup started by `start` writes before it suspends, or at once
\* when no caller number is known.
LookupStarted(cs, number) ==
    IF number # NoNumber
    THEN [cs EXCEPT !.phone_lookup_performed = TRUE]
    ELSE [cs EXCEPT !.phone_lookup_performed = TRUE, !.phone_lookup_found = FALSE]

\* What the lookup writes when lookupPropertyByPhone has returned: the
\* matched property, or the miss.
\* (bug variant: a match also overwrites the caller's name)
LookupState_Name(cs, found) ==
    IF found
    THEN [cs EXCEPT !.property_id = "L1", !.property_name = "LN",
                    !.caller_name = "LN",
                    !.phone_lookup_found = TRUE,
                    !.phone_lookup_source = "phone-mappings.json"]
    ELSE [cs EXCEPT !.phone_lookup_found = FALSE]
LookupState(cs, found) ==
    IF found
    THEN [cs EXCEPT !.property_id = "L1", !.property_name = "LN",
                    !.phone_lookup_found = TRUE,
                    !.phone_lookup_source = "phone-mappings.json"]
    ELSE [cs EXCEPT !.phone_lookup_found = FALSE]

\* case 'start'.  startFrom is the caller number the event or its
\* parameters supply, if any.
OnStart(sid, startCallSid, startFrom) ==
    /\ connOpen /\ startCount < MaxStarts
    /\ startCount' = startCount + 1
    /\ streamSid' = sid
    /\ callSid' = IF startCallSid # NoSid THEN startCallSid ELSE callSid
    /\ webhookBody' = AttachedBody(callMeta, callSid', webhookBody)
    /\ callMeta' = MetaAfterStart(callMeta, callSid')
    /\ soloWebhookBody' = AttachedBody(soloMeta, callSid', soloWebhookBody)
    /\ soloMeta' = MetaAfterStart(soloMeta, callSid')
    /\ callerNumber' = IF startFrom # NoNumber THEN startFrom
                       ELSE IF callerNumber # NoNumber THEN callerNumber
                       ELSE IF webhookBody' # "null" THEN WebhookFrom
                       ELSE NoNumber
    /\ callState' = LookupStarted(callState, callerNumber')
    /\ lookingUp' = IF callerNumber' # NoNumber THEN lookingUp + 1 ELSE lookingUp
    /\ twOut' = FlushCmds(sid, pendingAudioDeltas)
    /\ mediaSent' = mediaSent \o PayloadsOf(twOut')
    /\ pendingAudioDeltas' = <<>>
    /\ IF GreetingDueAtStart
       THEN /\ shouldSendInitialGreeting' = FALSE
            /\ aiOut' = sendInitialConversationItem
            /\ greetingCount' = greetingCount + 1
       ELSE /\ aiOut' = <<>>
            /\ UNCHANGED <<shouldSendInitialGreeting, greetingCount>>
    /\ responseStartTimestampTwilio' = NoTs
    /\ responseStartedAt' = NoTs
    /\ latestMediaTimestamp' = 0
    /\ lastEvent' = "start"
    /\ UNCHANGED <<lastAssistantItem, markQueue, sessionInitialized,
                   inactivityVars, aiState, connOpen, timers, now, exactTimers,
                   fetching, hangingUp, marksInFlight, twilioClient,
                   captureVars, persistVars, staleAcks, deltaCount, speechCount, doneCount,
                   stopCount, fcCount, fcLog, saveCount, transcripts, termCount, fireCount>>

\* case 'start' of another connection whose event carries the call
\* identifier sid: it takes the stored body and deletes the entry.
OtherCallStart(sid) ==
    /\ connOpen /\ sid \in callMeta
    /\ callMeta' = MetaAfterStart(callMeta, sid)
    /\ aiOut' = <<>> /\ twOut' = <<>>
    /\ lastEvent' = "other.start"
    /\ UNCHANGED <<sessionVars, callState, inactivityVars, historyVars,
                   aiState, connOpen, timers, now, exactTimers, fetching,
                   hangingUp, marksInFlight, twilioClient, lookingUp,
                   captureVars, persistVars, playbackGhosts, webhookBody, soloMeta,
                   soloWebhookBody>>

\* lookupPropertyByPhone returns to the lookup started by a `start`.
LookupComplete(found) ==
    /\ lookingUp > 0
    /\ lookingUp' = lookingUp - 1
    /\ callState' = LookupState(callState, found)
    /\ aiOut' = <<>> /\ twOut' = <<>>
    /\ lastEvent' = "lookup.settled"
    /\ UNCHANGED <<sessionVars, inactivityVars, historyVars, aiState, connOpen,
                   timers, now, exactTimers, fetching, hangingUp,
                   marksInFlight, twilioClient, captureVars, sharedVars, persistVars, playbackGhosts>>

\* What case 'media' passes to the AI leg for the frame stamped ts: the
\* frame's own payload, while the AI socket is open.
\* (bug variant: the frame before it forwarded in its place)
MediaForward_Stale(ts) ==
    IF aiState = "open" THEN <<AudioAppend(latestMediaTimestamp)>> ELSE <<>>
MediaForward(ts) == IF aiState = "open" THEN <<AudioAppend(ts)>> ELSE <<>>

\* case 'media'.
OnMedia(ts) ==
    /\ connOpen
    /\ latestMediaTimestamp' = ts
    /\ callerAudioChunks' = IF isCapturingCallerSpeech THEN 1
                            ELSE callerAudioChunks
    /\ aiOut' = MediaForward(ts)
    /\ twOut' = <<>>
    /\ lastEvent' = "media"
    /\ UNCHANGED <<streamSid, lastAssistantItem, markQueue,
                   responseStartTimestampTwilio, sessionInitialized,
                   shouldSendInitialGreeting, pendingAudioDeltas, callSid, callerNumber,
                   callState, inactivityVars, historyVars, aiState, connOpen,
                   timers, now, exactTimers, fetching, hangingUp,
                   marksInFlight, twilioClient, lookingUp, sharedVars, persistVars, playbackGhosts,
                   isCapturingCallerSpeech, transcribing, conversationLog>>

\* case 'mark': telephony acknowledges a mark it was sent.
OnMark ==
    /\ connOpen /\ marksInFlight > 0
    /\ marksInFlight' = marksInFlight - 1
    /\ markQueue' = IF Len(markQueue) > 0 THEN Tail(markQueue) ELSE markQueue
    \* acknowledgments arrive in the order the marks were sent
    /\ staleAcks' = IF staleAcks > 0 THEN staleAcks - 1 ELSE 0
    /\ aiOut' = <<>> /\ twOut' = <<>>
    /\ lastEvent' = "mark"
    /\ UNCHANGED <<streamSid, latestMediaTimestamp, lastAssistantItem,
                   responseStartTimestampTwilio, sessionInitialized,
                   shouldSendInitialGreeting, pendingAudioDeltas, callSid, callerNumber,
                   callState, inactivityVars, historyVars, aiState, connOpen,
                   timers, now, exactTimers, fetching, hangingUp, twilioClient,
                   lookingUp, captureVars, sharedVars, persistVars,
                   responseStartedAt>>

\* case 'stop'.
OnStop ==
    /\ connOpen /\ stopCount < MaxStops
    /\ stopCount' = stopCount + 1
    /\ saveTranscript(callState)
    /\ aiOut' = <<>> /\ twOut' = <<>>
    /\ lastEvent' = "stop"
    /\ UNCHANGED <<sessionVars, callState, inactivityVars, envVars,
                   deltaCount, mediaSent, startCount, speechCount, doneCount,
                   fcCount, fcLog, greetingCount, termCount, fireCount>>

\* The disconnect bookkeeping of connection.on('close'): the caller is
\* recorded when nobody was recorded before.
\* (bug variant: the caller recorded whatever was recorded before)
CloseState_Overwrite(cs) ==
    [cs EXCEPT !.disconnected_by = "caller", !.disconnect_reason = "caller_hangup"]
CloseState(cs) ==
    IF cs.disconnected_by = "null"
    THEN [cs EXCEPT !.disconnected_by = "caller",
                    !.disconnect_reason = "caller_hangup"]
    ELSE cs

\* connection.on('close').
OnConnectionClose ==
    /\ connOpen
    /\ connOpen' = FALSE
    /\ callState' = CloseState(callState)
    /\ timers' = ResetCleared
    /\ inactivityTimer' = NoTimer
    /\ aiState' = IF aiState = "open" THEN "closing" ELSE aiState
    /\ saveTranscript(callState')
    /\ aiOut' = <<>> /\ twOut' = <<>>
    /\ lastEvent' = "connection.close"
    /\ UNCHANGED <<sessionVars, inactivityWarningCount, armedAt, silenceFrom,
                   now, exactTimers, fetching, hangingUp, marksInFlight,
                   twilioClient, lookingUp, captureVars, sharedVars,
                   playbackGhosts, deltaCount, mediaSent, startCount,
                   speechCount, doneCount, stopCount, fcCount, fcLog,
                   greetingCount, termCount, fireCount>>


\* ------------------------------------------------------- AI leg: messages
\* A delta whose item_id differs from the item recorded so far opens a new
\* response.
NewResponse(item) ==
    item # NoItem /\ lastAssistantItem # NoItem /\ item # lastAssistantItem

\* response.output_audio.delta carrying payload deltaCount + 1.
OnAudioDelta(item) ==
    /\ AiReceiving /\ deltaCount < MaxDeltas
    /\ deltaCount' = deltaCount + 1
    /\ aiOut' = <<>>
    /\ IF streamSid = NoSid
       THEN /\ pendingAudioDeltas' = Append(pendingAudioDeltas, deltaCount + 1)
            /\ twOut' = <<>>
            /\ UNCHANGED <<mediaSent, responseStartTimestampTwilio,
                           lastAssistantItem, markQueue, marksInFlight,
                           responseStartedAt>>
       ELSE /\ twOut' = <<MediaCmd(streamSid, deltaCount + 1), MarkCmd(streamSid)>>
            /\ mediaSent' = mediaSent \o PayloadsOf(twOut')
            /\ responseStartTimestampTwilio' =
                   IF Falsy(responseStartTimestampTwilio)
                   THEN latestMediaTimestamp ELSE responseStartTimestampTwilio
            /\ responseStartedAt' =
                   IF responseStartedAt = NoTs \/ NewResponse(item)
                   THEN latestMediaTimestamp ELSE responseStartedAt
            /\ lastAssistantItem' = IF item # NoItem THEN item ELSE lastAssistantItem
            /\ markQueue' = Append(markQueue, "responsePart")
            /\ marksInFlight' = IF connOpen THEN marksInFlight + 1 ELSE marksInFlight
            /\ UNCHANGED pendingAudioDeltas
    /\ lastEvent' = "response.output_audio.delta"
    /\ UNCHANGED <<streamSid, latestMediaTimestamp, sessionInitialized,
                   shouldSendInitialGreeting, callSid, callerNumber, callState,
                   inactivityVars, aiState, connOpen, timers, now, exactTimers,
                   fetching, hangingUp, twilioClient, lookingUp, captureVars,
                   sharedVars, persistVars, staleAcks, startCount, speechCount,
                   doneCount, stopCount, fcCount, fcLog, greetingCount,
                   saveCount, transcripts, termCount, fireCount>>

\* input_audio_buffer.speech_started: resetInactivityTimer.
OnSpeechStarted ==
    /\ AiReceiving /\ speechCount < MaxSpeech
    /\ speechCount' = speechCount + 1
    /\ timers' = ResetCleared
    /\ inactivityTimer' = NoTimer
    /\ inactivityWarningCount' = 0
    \* USE_REALTIME_TRANSCRIPTION is false: capture starts on an empty buffer
    /\ isCapturingCallerSpeech' = TRUE
    /\ callerAudioChunks' = 0
    /\ aiOut' = <<>> /\ twOut' = <<>>
    /\ lastEvent' = "input_audio_buffer.speech_started"
    /\ UNCHANGED <<sessionVars, callState, armedAt, silenceFrom, aiState,
                   connOpen, now, exactTimers, fetching, hangingUp,
                   marksInFlight, twilioClient, lookingUp, sharedVars, persistVars, playbackGhosts, transcribing,
                   conversationLog, deltaCount, mediaSent,
                   startCount, doneCount, stopCount, fcCount, fcLog,
                   greetingCount, saveCount, transcripts, termCount, fireCount>>

\* input_audio_buffer.speech_stopped: handleSpeechStartedEvent, then the
\* captured speech goes to transcribeCallerAudio.  transcribeAudio returns
\* null at once for an empty buffer and awaits the service otherwise.
OnSpeechStopped ==
    /\ AiReceiving
    /\ handleSpeechStartedEvent
    /\ responseStartedAt' = IF BargeInGuard THEN NoTs ELSE responseStartedAt
    /\ staleAcks' = IF BargeInGuard THEN marksInFlight ELSE staleAcks
    /\ isCapturingCallerSpeech' = FALSE
    /\ transcribing' = IF isCapturingCallerSpeech /\ callerAudioChunks > 0
                       THEN transcribing + 1 ELSE transcribing
    /\ lastEvent' = "input_audio_buffer.speech_stopped"
    /\ UNCHANGED <<streamSid, latestMediaTimestamp, sessionInitialized,
                   shouldSendInitialGreeting, pendingAudioDeltas, callSid, callerNumber,
                   callState, inactivityVars, historyVars, aiState, connOpen,
                   timers, now, exactTimers, fetching, hangingUp,
                   marksInFlight, twilioClient, lookingUp, sharedVars, persistVars,
                   callerAudioChunks, conversationLog>>

\* ------------------------------------------------------- conversation log
\* What the transcript events and the transcription service may carry; ""
\* stands for a missing, empty or blank text.
Texts == {"", "T1"}
ItemRoles == {"user", "assistant", "system"}
TranscriptTypes == {"input_audio_transcription.done",
                    "conversation.item.added",
                    "response.output_audio_transcript.done"}

\* conversationLog.push of an entry stamped with the time of the push.
\* (bug variant: the entry put in front of the log)
LogPush_Front(log, role, content) ==
    <<[role |-> role, content |-> content, timestamp |-> now]>> \o log
LogPush(log, role, content) ==
    Append(log, [role |-> role, content |-> content, timestamp |-> now])

\* The assistant transcript is skipped when the last entry already holds it.
SameAsLast(log, role, content) ==
    /\ Len(log) > 0
    /\ log[Len(log)].content = content
    /\ log[Len(log)].role = role

\* The log after a transcript event of the AI leg.
LogAfter(log, type, role, text) ==
    CASE type = "input_audio_transcription.done" ->
            IF text # "" THEN LogPush(log, "user", text) ELSE log
      [] type = "conversation.item.added" ->
            IF role \in {"user", "assistant"} /\ text # ""
            THEN LogPush(log, role, text) ELSE log
      [] type = "response.output_audio_transcript.done" ->
            IF text # "" /\ ~SameAsLast(log, "assistant", text)
            THEN LogPush(log, "assistant", text) ELSE log

\* input_audio_transcript(ion).done, conversation.item.added and
\* response.output_audio_transcript.done.
OnTranscriptEvent(type, role, text) ==
    /\ AiReceiving /\ Len(conversationLog) < MaxLog
    /\ type \in TranscriptTypes /\ role \in ItemRoles /\ text \in Texts
    /\ conversationLog' = LogAfter(conversationLog, type, role, text)
    /\ aiOut' = <<>> /\ twOut' = <<>>
    /\ lastEvent' = type
    /\ UNCHANGED <<sessionVars, callState, inactivityVars, historyVars,
                   aiState, connOpen, timers, now, exactTimers, fetching,
                   hangingUp, marksInFlight, twilioClient, lookingUp, sharedVars, persistVars, playbackGhosts,
                   isCapturingCallerSpeech, callerAudioChunks, transcribing>>

\* transcribeAudio returns to a suspended transcribeCallerAudio: the text is
\* logged when there is one, and the capture buffer is emptied.
TranscribeComplete(text) ==
    /\ transcribing > 0 /\ Len(conversationLog) < MaxLog
    /\ text \in Texts
    /\ transcribing' = transcribing - 1
    /\ conversationLog' = IF text # "" THEN LogPush(conversationLog, "user", text)
                          ELSE conversationLog
    /\ callerAudioChunks' = 0
    /\ aiOut' = <<>> /\ twOut' = <<>>
    /\ lastEvent' = "transcription"
    /\ UNCHANGED <<sessionVars, callState, inactivityVars, historyVars,
                   aiState, connOpen, timers, now, exactTimers, fetching,
                   hangingUp, marksInFlight, twilioClient, lookingUp, sharedVars, persistVars, playbackGhosts,
                   isCapturingCallerSpeech>>

\* response.audio.done / response.done: startInactivityTimer.  `content` is
\* what the completed response generated; the handler tests the type only.
OnResponseDone(type, content) ==
    /\ AiReceiving /\ doneCount < MaxDone
    /\ type \in DoneTypes /\ content \in ResponseContents
    /\ doneCount' = doneCount + 1
    /\ timers' = StartCleared \cup {StartHandle}
    /\ inactivityTimer' = StartHandle
    /\ armedAt' = now
    /\ silenceFrom' = IF inactivityWarningCount = 0 THEN now ELSE silenceFrom
    /\ aiOut' = <<>> /\ twOut' = <<>>
    /\ lastEvent' = type
    /\ UNCHANGED <<sessionVars, callState, inactivityWarningCount, aiState,
                   connOpen, now, exactTimers, fetching, hangingUp,
                   marksInFlight, twilioClient, lookingUp, captureVars, sharedVars, persistVars, playbackGhosts, deltaCount, mediaSent,
                   startCount, speechCount, stopCount, fcCount, fcLog,
                   greetingCount, saveCount, transcripts, termCount, fireCount>>

\* What the timer callback passes to openAiWs.send after raising the warning
\* count to n: the system-authored prompt, then response.create.
\* (bug variant: the prompt sent without asking for a response)
InactivityEmission_NoCreate(n) == <<InactivityPrompt(PromptKind(n))>>
InactivityEmission(n) == <<InactivityPrompt(PromptKind(n)), ResponseCreate>>

\* The callback of the inactivity timer.
InactivityFire ==
    \E t \in timers :
        /\ t.kind = "inactivity" /\ Due(t)
        /\ timers' = timers \ {t}
        /\ inactivityWarningCount' = inactivityWarningCount + 1
        /\ aiOut' = InactivityEmission(inactivityWarningCount + 1)
        /\ twOut' = <<>>
        /\ lastEvent' = "inactivity.timeout"
        /\ fireCount' = fireCount + 1
        /\ UNCHANGED <<sessionVars, callState, inactivityTimer, armedAt,
                       silenceFrom, aiState, connOpen, now, exactTimers,
                       fetching, hangingUp, marksInFlight, twilioClient, lookingUp, captureVars, sharedVars, persistVars, playbackGhosts,
                       deltaCount, mediaSent, startCount, speechCount,
                       doneCount, stopCount, fcCount, fcLog, greetingCount,
                       saveCount, transcripts, termCount>>

\* ----------------------------------------------------------- tool dispatch
\* Parsed `arguments` of save_caller_info calls: records holding only the
\* keys the model supplied.  NoArgs is the parse of "{}".
NoArgs == [x \in {} |-> "null"]
SaveArgs ==
    {[property_id |-> "P1", property_name |-> "N1"],
     [caller_name |-> "C1", caller_email |-> "E1", issue_description |-> "I1"],
     [is_existing_client |-> "false", is_logged_in |-> "true",
      current_state |-> "B"],
     [sales_need |-> "S1", demo_choice |-> "book_demo", demo_preferred_time |-> "T1",
      intent |-> "demo_booking"],
     [property_id |-> "", caller_name |-> "C2", is_logged_in |-> "null"]}

\* Parsed `arguments` of route_call calls.
RouteArgs == {[routing |-> "support"], [routing |-> "sales", reason |-> "R1"]}

\* The parsed arguments a call of `name` with arguments of `shape` carries.
ArgsOf(name, shape) ==
    IF shape = "full" /\ name = "save_caller_info" THEN SaveArgs
    ELSE IF shape = "full" /\ name = "route_call" THEN RouteArgs
    ELSE {NoArgs}

\* JavaScript truthiness of an argument value.
Truthy(v) == v \notin {"", "null", "false"}

\* handleSaveCallerInfo copies these when the argument is truthy ...
TruthyGuarded == {"property_id", "property_name", "caller_name",
                  "caller_email", "issue_description", "current_state",
                  "sales_need", "demo_choice", "demo_preferred_time"}
\* ... and these when the argument is not undefined.
DefinedGuarded == {"is_existing_client", "is_logged_in"}

\* The assignments of handleSaveCallerInfo, field by field.
\* (bug variant: the record replaced, fields not supplied becoming null)
MergeArgs_Replace(cs, args) ==
    [f \in DOMAIN cs |->
        IF f \in TruthyGuarded \cup DefinedGuarded
        THEN IF f \in DOMAIN args THEN args[f] ELSE "null"
        ELSE cs[f]]
MergeArgs(cs, args) ==
    [f \in DOMAIN cs |->
        IF f \in TruthyGuarded /\ f \in DOMAIN args /\ Truthy(args[f])
        THEN args[f]
        ELSE IF f \in DefinedGuarded /\ f \in DOMAIN args
        THEN args[f]
        ELSE cs[f]]

\* handleRouteCall: the one assignment; a missing key reads as undefined.
\* (bug variant: the routing decision also overwrites the recorded need)
RouteState_Need(cs, args) ==
    [cs EXCEPT !.routing = IF "routing" \in DOMAIN args THEN args.routing
                           ELSE "undefined",
               !.sales_need = "null"]
RouteState(cs, args) ==
    [cs EXCEPT !.routing = IF "routing" \in DOMAIN args THEN args.routing
                           ELSE "undefined"]

\* handleSaveCallerInfo's result: the generic success data, plus SPEAK_THIS
\* and INSTRUCTION when this call's arguments carry intent 'demo_booking'
\* and the caller's number has digits.
SaveReply(args, number) ==
    IF /\ "intent" \in DOMAIN args /\ args.intent = "demo_booking"
       /\ number # NoNumber
    THEN "saved_speak" ELSE "saved"

\* The collected facts record a booked demo (tool schema: demo_choice).
BookingIntent(cs) == cs.demo_choice = "book_demo"

FcEntry(name, status, outputs, creates) ==
    [name |-> name, status |-> status, outputs |-> outputs, creates |-> creates]

ToolReply(id, payload) == <<FunctionOutput(id, payload), ResponseCreate>>

\* handleEndCall: the disconnect bookkeeping.
EndCallState(cs, reason) ==
    [cs EXCEPT !.end_reason = reason,
               !.ended_by_agent = TRUE,
               !.disconnected_by = IF reason = "inactivity" THEN "inactivity" ELSE "agent",
               !.disconnect_reason = reason]

EndReasons == {"inactivity", "caller_goodbye"}

\* The grace-timer callback closes over the callSid handleEndCall was passed:
\* the kind of the timer tells whether that callSid was set.
EndCallKinds == {"endcall", "endcall.nosid"}
EndCallKind(sid) == IF sid # NoSid THEN "endcall" ELSE "endcall.nosid"

\* response.function_call_arguments.done with call_id fcCount + 1.  `args`
\* is the parse of a save_caller_info call's arguments.
OnFunctionCall(name, shape, reason, args) ==
    LET id == fcCount + 1 IN
    /\ AiReceiving /\ fcCount < MaxCalls
    /\ args \in ArgsOf(name, shape)
    /\ fcCount' = id
    /\ twOut' = <<>>
    /\ CASE shape = "malformed" ->
              \* JSON.parse throws; the handler's catch drops the event
              /\ fcLog' = Append(fcLog, FcEntry(name, "threw", 0, 0))
              /\ aiOut' = <<>>
              /\ UNCHANGED <<callState, timers, fetching>>
         [] shape # "malformed" /\ name = "save_caller_info" ->
              /\ callState' = MergeArgs(callState, args)
              /\ fcLog' = Append(fcLog, FcEntry(name, "done", 1, 1))
              /\ aiOut' = ToolReply(id, SaveReply(args, callerNumber))
              /\ UNCHANGED <<timers, fetching>>
         [] shape = "full" /\ name = "route_call" ->
              /\ callState' = RouteState(callState, args)
              /\ fcLog' = Append(fcLog, FcEntry(name, "done", 1, 1))
              /\ aiOut' = ToolReply(id, "routed")
              /\ UNCHANGED <<timers, fetching>>
         [] shape = "empty" /\ name = "route_call" ->
              \* args.routing is undefined: toUpperCase throws after the
              \* assignment, before anything is sent
              /\ callState' = RouteState(callState, args)
              /\ fcLog' = Append(fcLog, FcEntry(name, "threw", 0, 0))
              /\ aiOut' = <<>>
              /\ UNCHANGED <<timers, fetching>>
         [] shape # "malformed"
            /\ name \in {"get_pricing_details", "get_interface_screenshots"} ->
              \* suspended in `await fetch`
              /\ fetching' = fetching \cup {[id |-> id, name |-> name]}
              /\ fcLog' = Append(fcLog, FcEntry(name, "pending", 0, 0))
              /\ aiOut' = <<>>
              /\ UNCHANGED <<callState, timers>>
         [] shape # "malformed" /\ name = "end_call" ->
              /\ callState' = EndCallState(callState,
                                  IF shape = "full" THEN reason ELSE "completed")
              /\ fcLog' = Append(fcLog, FcEntry(name, "done", 1, 1))
              /\ aiOut' = ToolReply(id, "goodbye")
              /\ timers' = timers \cup {NewTimer(timers, EndCallKind(callSid),
                                                  END_CALL_DELAY)}
              /\ UNCHANGED fetching
         [] shape # "malformed" /\ name = "unknown_tool" ->
              \* no branch of the dispatch matches
              /\ fcLog' = Append(fcLog, FcEntry(name, "done", 0, 0))
              /\ aiOut' = <<>>
              /\ UNCHANGED <<callState, timers, fetching>>
    /\ lastEvent' = "response.function_call_arguments.done"
    /\ UNCHANGED <<sessionVars, inactivityVars, aiState, connOpen, now,
                   exactTimers, hangingUp, marksInFlight, twilioClient, lookingUp, captureVars, sharedVars, persistVars, playbackGhosts,
                   deltaCount, mediaSent, startCount, speechCount, doneCount,
                   stopCount, greetingCount, saveCount, transcripts, termCount, fireCount>>

\* How the fetch of a pricing / screenshots handler settles: the data, a
\* rejected fetch, a response that is not ok, a body that is not JSON.
FetchOutcomes == {"ok", "network_error", "http_500", "bad_body"}
FetchFailures == FetchOutcomes \ {"ok"}

\* The call_id a suspended handler echoes: that of its own `response`.
\* (bug variant: the call_id of the latest function-call event)
ReplyCallId_Latest(f) == fcCount
ReplyCallId(f) == f.id

\* What the handler sends once its fetch has settled: the try block's data,
\* or the catch block's error payload, each followed by response.create.
\* (bug variant: no catch block, a failure sends nothing)
FetchReply_Rethrow(f, outcome) ==
    IF outcome = "ok" THEN ToolReply(ReplyCallId(f), "data") ELSE <<>>
FetchReply(f, outcome) ==
    ToolReply(ReplyCallId(f), IF outcome = "ok" THEN "data" ELSE "error")

\* The function_call_output and response.create messages among msgs.
IsOutput(m) == m.type \in {FunctionOutput(0, pl).type :
                              pl \in {"saved", "saved_speak", "routed", "data",
                                      "error", "goodbye"}}
NumOutputs(msgs) == Len(SelectSeq(msgs, IsOutput))
NumCreates(msgs) == Len(SelectSeq(msgs, LAMBDA m : m = ResponseCreate))

\* The tools whose handler suspends in `await fetch`.
FetchTools == {"get_pricing_details", "get_interface_screenshots"}

\* How the handling of a suspended call stands once its fetch has settled
\* and the handler has sent `reply`: finished, normally or by an exception.
\* (bug variant: the handler stays suspended after its fetch has settled)
SettledStatus_Pending(reply) == "pending"
SettledStatus(reply) == IF reply = <<>> THEN "threw" ELSE "done"

\* The fetch of a suspended pricing / screenshots handler settles and the
\* handler runs to its end.
FetchComplete(f, outcome) ==
    /\ f \in fetching /\ outcome \in FetchOutcomes
    /\ fetching' = fetching \ {f}
    /\ aiOut' = FetchReply(f, outcome)
    /\ fcLog' = [fcLog EXCEPT ![f.id] =
                    FcEntry(f.name, SettledStatus(aiOut'),
                            @.outputs + NumOutputs(aiOut'),
                            @.creates + NumCreates(aiOut'))]
    /\ twOut' = <<>>
    /\ lastEvent' = "fetch.settled"
    /\ UNCHANGED <<sessionVars, callState, inactivityVars, aiState, connOpen,
                   timers, now, exactTimers, hangingUp, marksInFlight,
                   twilioClient, lookingUp, captureVars, sharedVars, persistVars, playbackGhosts, deltaCount, mediaSent, startCount,
                   speechCount, doneCount, stopCount, fcCount, greetingCount,
                   saveCount, transcripts, termCount, fireCount>>

\* `if (connection && connection.socket) connection.socket.close()`: the
\* close runs when the connection object carries a `socket` property.
FallbackClose(hasSocket) == IF hasSocket THEN 1 ELSE 0

\* The callback of the end-call grace timer: hang up through the telephony
\* provider, or close the telephony socket when that is not possible.
\* hasSocket: whether the connection object has a `socket` property.
EndCallFire(hasSocket) ==
    \E t \in timers :
        /\ t.kind \in EndCallKinds /\ Due(t)
        /\ timers' = timers \ {t}
        /\ IF twilioClient /\ t.kind = "endcall"
           THEN /\ hangingUp' = hangingUp + 1   \* await endCall(callSid)
                /\ UNCHANGED termCount
           ELSE /\ termCount' = termCount + FallbackClose(hasSocket)
                /\ UNCHANGED hangingUp
        /\ aiOut' = <<>> /\ twOut' = <<>>
        /\ lastEvent' = "end_call.timeout"
        /\ UNCHANGED <<sessionVars, callState, inactivityVars, aiState,
                       connOpen, now, exactTimers, fetching, marksInFlight,
                       twilioClient, lookingUp, captureVars, sharedVars, persistVars, playbackGhosts, deltaCount, mediaSent, startCount,
                       speechCount, doneCount, stopCount, fcCount, fcLog,
                       greetingCount, saveCount, transcripts, fireCount>>

\* endCall returns: the provider has hung up, or the update was rejected and
\* the callback falls back to closing the telephony socket.
HangupResult(ok, hasSocket) ==
    /\ hangingUp > 0
    /\ hangingUp' = hangingUp - 1
    /\ termCount' = IF ok THEN termCount + 1
                    ELSE termCount + FallbackClose(hasSocket)
    /\ aiOut' = <<>> /\ twOut' = <<>>
    /\ lastEvent' = "endCall.settled"
    /\ UNCHANGED <<sessionVars, callState, inactivityVars, aiState, connOpen,
                   timers, now, exactTimers, fetching, marksInFlight,
                   twilioClient, lookingUp, captureVars, sharedVars, persistVars, playbackGhosts, deltaCount, mediaSent, startCount,
                   speechCount, doneCount, stopCount, fcCount, fcLog,
                   greetingCount, saveCount, transcripts, fireCount>>

\* ------------------------------------------------- AI leg: close and error
\* openAiWs.on('close'): logs.
OnAiClose ==
    /\ aiState # "closed"
    /\ aiState' = "closed"
    /\ aiOut' = <<>> /\ twOut' = <<>>
    /\ lastEvent' = "openai.close"
    /\ UNCHANGED <<sessionVars, callState, inactivityVars, historyVars,
                   connOpen, timers, now, exactTimers, fetching, hangingUp,
                   marksInFlight, twilioClient, lookingUp, captureVars, sharedVars, persistVars, playbackGhosts>>

\* openAiWs.on('error'): logs; the socket delivers nothing more and closes.
OnAiError ==
    /\ aiState \in {"connecting", "open"}
    /\ aiState' = "failed"
    /\ aiOut' = <<>> /\ twOut' = <<>>
    /\ lastEvent' = "openai.error"
    /\ UNCHANGED <<sessionVars, callState, inactivityVars, historyVars,
                   connOpen, timers, now, exactTimers, fetching, hangingUp,
                   marksInFlight, twilioClient, lookingUp, captureVars, sharedVars, persistVars, playbackGhosts>>

\* ------------------------------------------------------------------ clock
\* Time passes, up to the next deadline; no deadline is passed over.
Tick ==
    /\ exactTimers
    /\ now < MaxTime
    /\ \A t \in timers : t.at > now
    /\ now' = Min({now + Quantum} \cup {t.at : t \in timers})
    /\ aiOut' = <<>> /\ twOut' = <<>>
    /\ lastEvent' = "tick"
    /\ UNCHANGED <<sessionVars, callState, inactivityVars, historyVars,
                   aiState, connOpen, timers, exactTimers, fetching, hangingUp,
                   marksInFlight, twilioClient, lookingUp, captureVars, sharedVars, persistVars, playbackGhosts>>

\* ------------------------------------------------------------------- Next
\* Environment inputs of the telephony `start` and `media` events.
\* The call identifier and the caller's number reach the handler by the
\* same route, so a `start` supplies both or neither.
Start == \E sid \in StreamSids, c \in {NoSid, 1} :
             OnStart(sid, c, IF c # NoSid THEN 1 ELSE NoNumber)
LookupDone == \E found \in BOOLEAN : LookupComplete(found)
Media == \E ts \in 0..MaxTs : ts >= latestMediaTimestamp /\ OnMedia(ts)
AudioDelta == \E item \in {NoItem} \cup ItemIds : OnAudioDelta(item)
FunctionCall == \E name \in CallNames, shape \in ArgShapes, r \in EndReasons,
                   args \in SaveArgs \cup RouteArgs \cup {NoArgs} :
                    OnFunctionCall(name, shape, r, args)
FetchDone == \E f \in fetching, outcome \in FetchOutcomes :
                 FetchComplete(f, outcome)
HangupDone == \E ok \in BOOLEAN, hasSocket \in BOOLEAN :
                  HangupResult(ok, hasSocket)
EndCallTimeout == \E hasSocket \in BOOLEAN : EndCallFire(hasSocket)
\* response.audio.done reports an audio turn; response.done any response.
ResponseDone == \E type \in DoneTypes, content \in ResponseContents :
                    /\ type = "response.audio.done" => content = "audio"
                    /\ OnResponseDone(type, content)

\* The completion of an audio turn, as response.done reports it; the
\* lifecycle follows two turns fewer than the inactivity monitor.
AudioTurnDone == /\ doneCount < MaxDone - 2
                 /\ OnResponseDone("response.done", "audio")

TranscriptEvent == \E type \in TranscriptTypes, role \in ItemRoles,
                      text \in Texts :
                       /\ type # "conversation.item.added" => role = "user"
                       /\ OnTranscriptEvent(type, role, text)
TranscribeDone == \E text \in Texts : TranscribeComplete(text)
\* A frame of caller audio where only its capture matters.
SpeechFrame == OnMedia(latestMediaTimestamp)

\* The two tools that record collected facts.
CollectCall == \E name \in {"save_caller_info", "route_call"},
                  shape \in ArgShapes,
                  args \in SaveArgs \cup RouteArgs \cup {NoArgs} :
                   OnFunctionCall(name, shape, "caller_goodbye", args)

EndCallRequest == \E shape \in ArgShapes, r \in EndReasons :
                      OnFunctionCall("end_call", shape, r, NoArgs)

\* Caller speech where the inactivity monitor is not the subject: one event
\* fewer than the monitor's specifications follow.
CallerSpeech == speechCount < MaxSpeech - 1 /\ OnSpeechStarted

\* Call lifecycle: both legs, the greeting join, the end-call tool, the
\* timers and the finalization at close (FactsSpec follows the `stop`
\* event).  Timers may run late by any amount.
Next ==
    \/ OnAiOpen
    \/ initializeSession
    \/ Start
    \/ OnConnectionClose
    \/ CallerSpeech
    \/ AudioTurnDone
    \/ InactivityFire
    \/ EndCallRequest
    \/ EndCallTimeout
    \/ HangupDone
    \/ OnAiClose
    \/ OnAiError

\* Tool dispatch: every tool name and argument shape, fetches in flight.
NextTools ==
    \/ OnAiOpen
    \/ FunctionCall
    \/ FetchDone
    \/ EndCallTimeout
    \/ HangupDone
    \/ OnConnectionClose
    \/ OnAiClose

\* The greeting join: session initialization against `start`.
NextGreeting ==
    \/ OnAiOpen
    \/ initializeSession
    \/ Start
    \/ OnConnectionClose
    \/ OnAiClose

\* Audio path: deltas, marks, media frames and barge-in.
NextAudio ==
    \/ OnAiOpen
    \/ Start
    \/ Media
    \/ OnMark
    \/ AudioDelta
    \/ CallerSpeech
    \/ OnSpeechStopped
    \/ OnConnectionClose
    \/ OnAiClose

\* Inactivity monitor against the clock, timers firing at their deadlines.
NextTimed ==
    \/ OnAiOpen
    \/ initializeSession
    \/ ResponseDone
    \/ OnSpeechStarted
    \/ InactivityFire
    \/ OnConnectionClose
    \/ OnAiClose
    \/ Tick

\* Inactivity monitor alone: arming, firing, reset, with timers running late.
NextMonitor ==
    \/ OnAiOpen
    \/ ResponseDone
    \/ OnSpeechStarted
    \/ InactivityFire
    \/ OnConnectionClose

\* Playback against turn completion: deltas and their marks, the telephony
\* acknowledgements, and the events that arm the inactivity timer.
NextPlayback ==
    \/ OnAiOpen
    \/ Start
    \/ AudioDelta
    \/ OnMark
    \/ ResponseDone
    \/ InactivityFire

\* Collected facts: the tools that record them, the phone lookup started by
\* `start`, and the ends of the call.
NextFacts ==
    \/ OnAiOpen
    \/ Start
    \/ LookupDone
    \/ CollectCall
    \/ OnStop
    \/ OnConnectionClose

\* The conversation log: the transcript events, caller speech captured
\* from the media frames and transcribed, with the clock running.
\* Fallback transcription across utterances: frames, speech boundaries, and
\* transcriptions completing late.
NextCapture ==
    \/ OnAiOpen
    \/ Media
    \/ OnSpeechStarted
    \/ OnSpeechStopped
    \/ TranscribeDone

\* Session set-up against caller audio: the AI socket opening, the delayed
\* session configuration, and the telephony stream starting and sending frames.
NextSession ==
    \/ OnAiOpen
    \/ initializeSession
    \/ Start
    \/ Media
    \/ OnConnectionClose

NextLog ==
    \/ OnAiOpen
    \/ initializeSession
    \/ SpeechFrame
    \/ CallerSpeech
    \/ OnSpeechStopped
    \/ TranscribeDone
    \/ TranscriptEvent
    \/ Tick

\* Two concurrent calls: this call's start, lookup, tool calls and
\* finalization, and the start of another connection.
StartNoFrom == \E sid \in StreamSids, c \in {NoSid, 1} : OnStart(sid, c, NoNumber)
OtherStart == \E sid \in {1} : OtherCallStart(sid)
NextShared ==
    \/ OnAiOpen
    \/ StartNoFrom
    \/ OtherStart
    \/ LookupDone
    \/ CollectCall
    \/ OnStop
    \/ OnConnectionClose

\* Finalization and the persistence of its records, under any deployment.
PersistDone == \E job \in persisting, ok, fs1, fs2 \in BOOLEAN :
                   PersistStep(job, ok, fs1, fs2)
NextPersist ==
    \/ OnStop
    \/ OnConnectionClose
    \/ PersistDone

\* The collected facts up to the close of the connection.  They do not
\* depend on the provider client: one value of it is enough.
NextCollect ==
    \/ OnAiOpen
    \/ Start
    \/ LookupDone
    \/ CollectCall
    \/ OnConnectionClose

Spec == Init /\ [][Next]_vars
InitCollect == Init /\ twilioClient
CollectSpec == InitCollect /\ [][NextCollect]_vars
GreetingSpec == Init /\ [][NextGreeting]_vars
PersistSpec == InitPersist /\ [][NextPersist]_vars
SharedSpec == InitShared /\ [][NextShared]_vars
LogSpec == InitTimed /\ [][NextLog]_vars
CaptureSpec == InitAudio /\ [][NextCapture]_vars
SessionSpec == InitAudio /\ [][NextSession]_vars
FactsSpec == Init /\ [][NextFacts]_vars
PlaybackSpec == Init /\ [][NextPlayback]_vars
MonitorSpec == Init /\ [][NextMonitor]_vars
ToolSpec == Init /\ [][NextTools]_vars
AudioSpec == InitAudio /\ [][NextAudio]_vars
TimedSpec == InitTimed /\ [][NextTimed]_vars


\* =================================================================== claims

\* C1: the greeting directive has been sent exactly once when both the
\* session has been initialized and a `start` has been received, and zero
\* times before that, however often `start` is received.
C1_GreetingExactlyOnce ==
    greetingCount = IF sessionInitialized /\ startCount > 0 THEN 1 ELSE 0

\* C1 witness: the session is initialized, `start` has been received twice
\* and one greeting has been sent.
C1_Witness ==
    sessionInitialized /\ startCount >= 2 /\ greetingCount = 1

\* C2: once a termination signal (`stop`, telephony close) has been handled,
\* saveTranscript has run exactly once.
C2_FinalizationExactlyOnce ==
    (stopCount > 0 \/ ~connOpen) => saveCount = 1

\* C3: every function-call event whose handling has finished was answered by
\* exactly one function_call_output and exactly one response.create.
C3_OneResultOneContinuation ==
    \A i \in 1..Len(fcLog) :
        fcLog[i].status # "pending" =>
            fcLog[i].outputs = 1 /\ fcLog[i].creates = 1

\* C4: the payloads sent to telephony as `media`, followed by the payloads
\* still buffered, are the received deltas 1, 2, ... in arrival order, and
\* nothing stays buffered once `start` has been handled.
C4_AudioInArrivalOrder ==
    /\ mediaSent \o pendingAudioDeltas = [i \in 1..deltaCount |-> i]
    /\ startCount > 0 => pendingAudioDeltas = <<>>

\* C4 witness: a `start` just flushed at least two buffered deltas.
C4_Witness ==
    /\ lastEvent = "start"
    /\ Len(twOut) >= 2
    /\ twOut[1].type = "media" /\ twOut[2].type = "media"

\* C5: handling speech_started while marks are queued and the response
\* start is known sends the truncate with the elapsed time and the clear,
\* and resets the mark queue, the last item and the response start.
C5_BargeInOnSpeechStarted ==
    [][(OnSpeechStarted /\ Len(markQueue) > 0
                        /\ responseStartTimestampTwilio # NoTs)
        => /\ \E m \in {aiOut'[i] : i \in 1..Len(aiOut')} :
                 /\ m.type = "conversation.item.truncate"
                 /\ m.b = latestMediaTimestamp - responseStartTimestampTwilio
           /\ \E m \in {twOut'[i] : i \in 1..Len(twOut')} : m.type = "clear"
           /\ markQueue' = <<>>
           /\ lastAssistantItem' = NoItem
           /\ responseStartTimestampTwilio' = NoTs]_vars

\* C6: a speech signal (speech_started or speech_stopped) handled while the
\* mark queue is empty sends no truncate and no clear and leaves the mark
\* queue, the last item and the response start as they were.
C6_NoBargeInOnEmptyQueue ==
    [][((OnSpeechStarted \/ OnSpeechStopped) /\ markQueue = <<>>)
        => /\ \A i \in 1..Len(aiOut') : aiOut'[i].type # "conversation.item.truncate"
           /\ \A i \in 1..Len(twOut') : twOut'[i].type # "clear"
           /\ UNCHANGED <<markQueue, lastAssistantItem,
                          responseStartTimestampTwilio>>]_vars

\* C6 witness: a speech_stopped was just handled with the mark queue empty
\* while a response start and a last item were recorded.
C6_Witness ==
    /\ lastEvent = "input_audio_buffer.speech_stopped"
    /\ markQueue = <<>>
    /\ responseStartTimestampTwilio # NoTs
    /\ lastAssistantItem # NoItem

\* C7: no inactivity callback and no end-call callback runs after the
\* telephony leg or the AI leg has closed.
C7_NoTimerAfterClose ==
    [][(InactivityFire \/ EndCallTimeout) => (connOpen /\ aiState # "closed")]_vars

\* C8: when the AI leg has closed, the telephony leg is open and the system
\* has nothing left to run, the call has been terminated and finalized.
C8_TerminatedAfterAiClose ==
    (aiState = "closed" /\ connOpen /\ timers = {} /\ fetching = {}
        /\ hangingUp = 0)
    => (termCount > 0 /\ saveCount > 0)

\* C9 (as stated): without caller speech, the k-th firing happens T_k after
\* the last audio-turn completion that armed the timer with warning count 0.
CumulativeOffset(k) ==
    IF k = 1 THEN FIRST_WARNING ELSE IF k = 2 THEN FINAL_WARNING ELSE HANGUP
C10_SpeechCancelsTimer ==
    [][/\ OnSpeechStarted =>
            /\ inactivityTimer' = NoTimer
            /\ inactivityWarningCount' = 0
            /\ \A t \in timers' : t.kind # "inactivity"
       /\ InactivityFire => inactivityTimer # NoTimer]_vars

\* C10 witness: the first speech_started of the call was just handled while
\* a timer armed after the first firing was pending.
C10_Witness ==
    /\ lastEvent = "input_audio_buffer.speech_started"
    /\ speechCount = 1
    /\ fireCount = 1
    /\ armedAt > silenceFrom
    /\ connOpen

\* C11: the completion of a response that generated only text or only a
\* function call (a response.done that is not a finished audio turn) neither
\* arms nor restarts the inactivity timer.
C11_ArmedOnlyOnAudioTurn ==
    [][(\E content \in {"text", "function_call"} :
            OnResponseDone("response.done", content))
        => UNCHANGED <<inactivityTimer, timers>>]_vars

\* C12: at every arming of the inactivity timer the playback-mark queue is
\* empty, i.e. telephony has acknowledged every audio chunk of the response.
C12_ArmedAfterPlayback ==
    [][(\E type \in DoneTypes, content \in ResponseContents :
            OnResponseDone(type, content))
        => markQueue = <<>>]_vars

\* C13: the warning count only takes the values 0, 1, 2 and 3, and the timer
\* callback does not run once the count has reached 3.
C13_FourMonitorStates ==
    [][/\ inactivityWarningCount' \in 0..3
       /\ InactivityFire => inactivityWarningCount < 3]_vars

\* C14: every firing passes to the AI leg exactly the prompt of its rank
\* (1: still there, 2: final notice, 3: goodbye and end_call) followed by
\* one response.create, sends nothing to telephony, starts no hang-up and
\* leaves the telephony connection and the disconnect metadata alone.
C14_FiringSendsPromptAndCreate ==
    [][InactivityFire =>
        /\ Len(aiOut') = 2
        /\ aiOut'[1].type = "conversation.item.create:inactivity"
        /\ inactivityWarningCount' \in 1..3 => aiOut'[1].a = inactivityWarningCount'
        /\ aiOut'[2].type = "response.create"
        /\ twOut' = <<>>
        /\ UNCHANGED <<callState, connOpen, hangingUp, termCount>>]_vars

\* C14 witness: the third firing just sent the goodbye prompt and the
\* telephony leg is open with no disconnect recorded.
C14_Witness ==
    /\ lastEvent = "inactivity.timeout"
    /\ fireCount = 3
    /\ Len(aiOut) = 2 /\ aiOut[1].a = 3
    /\ connOpen /\ callState.disconnected_by = "null"

\* C15: a save_caller_info call leaves every collected-facts field that its
\* arguments omit at the value the field had before the call.
C15_PartialUpdate ==
    [][\A shape \in {"full", "empty"}, args \in SaveArgs \cup {NoArgs} :
            (/\ fcCount' = fcCount + 1
             /\ OnFunctionCall("save_caller_info", shape, "caller_goodbye", args))
            => \A f \in FactFields :
                   f \notin DOMAIN args => callState'[f] = callState[f]]_vars

\* C15 witness: the second of two save_caller_info calls was just handled;
\* one supplied the property and the other the caller's name, and both
\* facts are recorded.
C15_Witness ==
    /\ lastEvent = "response.function_call_arguments.done"
    /\ Len(fcLog) = 2
    /\ \A i \in 1..2 : fcLog[i].name = "save_caller_info" /\ fcLog[i].status = "done"
    /\ callState.property_id = "P1"
    /\ callState.caller_name = "C1"

\* C16: when the fetch of a pricing / screenshots handler fails (rejected
\* fetch, status that is not ok, body that is not JSON) the handler sends
\* exactly one function_call_output carrying the error payload, then exactly
\* one response.create, and returns normally.
C16_FetchFailureAnswered ==
    [][\A f \in fetching, outcome \in FetchFailures :
            FetchComplete(f, outcome)
            => /\ Len(aiOut') = 2
               /\ aiOut'[1].type = FunctionOutput(0, "error").type
               /\ aiOut'[2] = ResponseCreate
               /\ fcLog'[f.id].status = "done"]_vars

\* C16 witness: a failed fetch was just answered with the error payload.
C16_Witness ==
    /\ lastEvent = "fetch.settled"
    /\ Len(aiOut) = 2
    /\ aiOut[1].type = FunctionOutput(0, "error").type
    /\ fetching = {}

\* C17: every function_call_output a step sends carries the call_id of the
\* function-call event whose handling that step started or resumed: the
\* event just received, or the pending one whose fetch just settled.
C17_OutputEchoesCallId ==
    [][\A i \in 1..Len(aiOut') :
          IsOutput(aiOut'[i]) =>
              LET id == aiOut'[i].a IN
              /\ id \in 1..Len(fcLog')
              /\ \/ id > Len(fcLog)
                 \/ fcLog[id].status = "pending" /\ fcLog'[id].status = "done"]_vars

\* C17 witness: two calls with fetches were pending and the fetch of the
\* second settled first; its output carries call_id 2.
C17_Witness ==
    /\ lastEvent = "fetch.settled"
    /\ Len(fcLog) = 2
    /\ fcLog[1].status = "pending" /\ fcLog[2].status = "done"
    /\ IsOutput(aiOut[1]) /\ aiOut[1].a = 2

\* C18: once the grace timers of the end_call invocations have run and the
\* hang-up commands have settled, each handled end_call has been followed by
\* exactly one termination that took effect: the provider's hang-up, or the
\* direct close when the provider was unavailable or the hang-up failed.
EndCallsHandled ==
    Cardinality({i \in 1..Len(fcLog) :
                    fcLog[i].name = "end_call" /\ fcLog[i].status = "done"})
C18_OneTerminationPerEndCall ==
    ((\A t \in timers : t.kind \notin EndCallKinds) /\ hangingUp = 0)
    => termCount = EndCallsHandled

\* C19: handling end_call with reason r (absent: "completed") records
\* disconnect_reason r, ended_by_agent true and disconnected_by "inactivity"
\* for r = "inactivity" and "agent" otherwise; the telephony close leaves the
\* call state as it is when an end_call was handled before it, and records
\* the caller otherwise.
C19_DisconnectMetadata ==
    [][/\ \A shape \in {"full", "empty"}, r \in EndReasons :
            OnFunctionCall("end_call", shape, r, NoArgs)
            => LET given == IF shape = "full" THEN r ELSE "completed" IN
               /\ callState'.disconnect_reason = given
               /\ callState'.ended_by_agent = TRUE
               /\ callState'.disconnected_by =
                      IF given = "inactivity" THEN "inactivity" ELSE "agent"
       /\ OnConnectionClose
            => IF EndCallsHandled > 0
               THEN UNCHANGED callState
               ELSE /\ callState'.disconnected_by = "caller"
                    /\ callState'.disconnect_reason = "caller_hangup"]_vars

\* C19 witness: the telephony leg just closed after an end_call for
\* inactivity, and the record still names inactivity.
C19_Witness ==
    /\ lastEvent = "connection.close"
    /\ EndCallsHandled > 0
    /\ callState.disconnected_by = "inactivity"
    /\ callState.disconnect_reason = "inactivity"
    /\ callState.ended_by_agent

\* C20 (as stated): a collected-facts field changes only in a step that
\* handles a function-call event.
C20_FactsChangeOnlyInToolCalls ==
    [][(\E f \in FactFields : callState'[f] # callState[f])
        => lastEvent' = "response.function_call_arguments.done"]_vars

\* C20 (amended): a collected-facts field changes only in a step that
\* handles a function-call event, or, for property_id and property_name,
\* in the step where the phone lookup started by `start` returns.
C20_FactsChangeInToolCallsOrLookup ==
    [][\A f \in FactFields :
          callState'[f] # callState[f]
          => \/ lastEvent' = "response.function_call_arguments.done"
             \/ /\ lastEvent' = "lookup.settled"
                /\ f \in {"property_id", "property_name"}]_vars

\* C20 witness: the lookup just returned a match after save_caller_info had
\* recorded the caller's name; the property comes from the lookup and the
\* name from the tool call.
C20_Witness ==
    /\ lastEvent = "lookup.settled"
    /\ callState.phone_lookup_found
    /\ callState.property_id = "L1"
    /\ callState.caller_name = "C1"

\* C21: whenever a record is built while the phone lookup has returned a
\* known account, its phoneLookup block says found and carries the property
\* identifier the lookup matched ("L1").
C21_LookupMatchPersisted ==
    [][(saveCount' = saveCount + 1 /\ callState'.phone_lookup_found)
        => LET record == transcripts'[Len(transcripts')] IN
           /\ record.phoneLookup.found
           /\ record.phoneLookup.property_id = "L1"]_vars

\* C30: every record built while no end_call has been handled names the
\* caller as the one who disconnected, with reason caller_hangup, whether
\* `stop` or the connection close triggered it.
C30_CallerHangupRecorded ==
    [][(saveCount' = saveCount + 1 /\ EndCallsHandled = 0)
        => LET record == transcripts'[Len(transcripts')] IN
           /\ record.disconnectInfo.disconnected_by = "caller"
           /\ record.disconnectInfo.disconnect_reason = "caller_hangup"]_vars

\* C22: a telephony frame handled while the AI socket is open sends exactly
\* one input_audio_buffer.append, carrying that frame, within the step that
\* handles the frame; no other step sends an append.
C22_FramesForwardedInOrder ==
    [][/\ \A ts \in 0..MaxTs :
            (OnMedia(ts) /\ aiState = "open") => aiOut' = <<AudioAppend(ts)>>
       /\ lastEvent' # "media" =>
            \A i \in 1..Len(aiOut') : aiOut'[i].type # AudioAppend(0).type]_vars

\* C22 witness: a frame later than the first was just forwarded.
C22_Witness ==
    /\ lastEvent = "media"
    /\ aiState = "open"
    /\ latestMediaTimestamp = MaxTs
    /\ aiOut = <<AudioAppend(MaxTs)>>

\* The events of the AI leg.
AiEvents == {"response.function_call_arguments.done",
             "response.output_audio.delta", "response.audio.done",
             "response.done", "input_audio_buffer.speech_started",
             "input_audio_buffer.speech_stopped"} \cup TranscriptTypes

C24_RouteCallSetsRoutingOnly ==
    [][\A args \in RouteArgs :
          OnFunctionCall("route_call", "full", "caller_goodbye", args)
          => /\ callState'.routing = args.routing
             /\ \A f \in DOMAIN callState \ {"routing"} :
                    callState'[f] = callState[f]
             /\ UNCHANGED <<sessionVars, inactivityVars, timers, fetching>>]_vars

\* C24 witness: a route_call to sales was handled after the caller's need
\* had been saved, and the need is still there.
C24_Witness ==
    /\ Len(fcLog) = 2
    /\ fcLog[2].name = "route_call" /\ fcLog[2].status = "done"
    /\ callState.routing = "sales"
    /\ callState.sales_need = "S1"

\* C25: the result of a save_caller_info call carries the spoken-confirmation
\* instruction exactly when the merged collected facts record a booked demo
\* (saved by this call or an earlier one) and the caller's number is known.
C25_BookingInstruction ==
    [][(/\ fcCount' = fcCount + 1
        /\ fcLog'[fcCount'].name = "save_caller_info"
        /\ fcLog'[fcCount'].status = "done")
       => (aiOut'[1] = FunctionOutput(fcCount', "saved_speak")
           <=> (BookingIntent(callState') /\ callerNumber # NoNumber))]_vars

\* C26: the conversation log is append-only: a step that changes it adds
\* exactly one entry at its end and leaves the entries before it as they
\* were, and the timestamps never decrease along the log.
C26_LogAppendOnly ==
    [][/\ conversationLog' # conversationLog =>
            /\ Len(conversationLog') = Len(conversationLog) + 1
            /\ SubSeq(conversationLog', 1, Len(conversationLog)) = conversationLog
       /\ \A i, j \in 1..Len(conversationLog') :
            i <= j => conversationLog'[i].timestamp <= conversationLog'[j].timestamp]_vars

\* C26 witness: a transcription that came back late has just been logged
\* behind an assistant entry logged at an earlier time.
C26_Witness ==
    /\ lastEvent = "transcription"
    /\ Len(conversationLog) >= 2
    /\ conversationLog[Len(conversationLog)].role = "user"
    /\ conversationLog[1].role = "assistant"
    /\ conversationLog[1].timestamp < conversationLog[Len(conversationLog)].timestamp

\* C27: what is persisted for a call does not depend on the events another
\* call receives: every record holds the webhook body the call would have
\* attached had no other connection received an event, also when the other
\* connection presents the same call identifier.
C27_NoSharedState ==
    [][saveCount' = saveCount + 1
       => transcripts'[Len(transcripts')].webhookBody = soloWebhookBody']_vars

\* The stage the persistence of record id is suspended at, "done" if ended.
StageOf(id) ==
    IF \E j \in persisting : j.id = id
    THEN (CHOOSE j \in persisting : j.id = id).stage ELSE "done"
Tried(id, target) == \E a \in written : a.id = id /\ a.target = target
Wrote(id, target) == Attempt(id, target, TRUE) \in written
Failed(id, target) == Attempt(id, target, FALSE) \in written

\* C28: a record goes to the bucket when the bucket is configured, and to
\* the local directory exactly when the bucket is not configured or its
\* upload failed; whatever fails, the run goes on: the backup is written
\* after the primary step, and the mail is tried whenever a transporter is
\* configured.
C28_PersistWithFallback ==
    \A id \in 1..saveCount :
        LET pastStore == StageOf(id) # "primary" IN
        /\ Tried(id, "gcs") <=> (storageConfig.gcs /\ pastStore)
        /\ Tried(id, "local") <=>
               (pastStore /\ (~storageConfig.gcs \/ Failed(id, "gcs")))
        /\ pastStore => Tried(id, "backup_local")
        /\ (StageOf(id) \in {"email_send", "done"} /\ storageConfig.gcs)
               => Tried(id, "backup_gcs")
        /\ StageOf(id) = "done" => (Tried(id, "email") <=> storageConfig.email)

\* C28 witness: a record whose upload failed was written locally, its
\* backup was written, and its run ended with a failed mail.
C28_Witness ==
    \E id \in 1..saveCount :
        /\ Failed(id, "gcs") /\ Wrote(id, "local")
        /\ Wrote(id, "backup_local") /\ Failed(id, "backup_gcs")
        /\ Failed(id, "email") /\ StageOf(id) = "done"

\* C29: a function-call message whose handling raises an error (arguments
\* that do not parse, or that lack a required field) is dropped: the
\* call session is after the message as it was before it.
C29_FailedMessageDropped ==
    [][(/\ fcCount' = fcCount + 1
        /\ fcLog'[fcCount'].status = "threw")
       => /\ callState' = callState
          /\ UNCHANGED <<sessionVars, inactivityVars, timers, fetching>>]_vars

\* C31: the truncate sent at a barge-in carries the media time elapsed since
\* the first forwarded delta of the response it truncates, also when earlier
\* responses played to their end without being interrupted.
C31_TruncateSinceResponseStart ==
    [][(OnSpeechStopped /\ BargeInGuard /\ lastAssistantItem # NoItem)
       => aiOut' = <<Truncate(lastAssistantItem,
                              latestMediaTimestamp - responseStartedAt)>>]_vars

\* C32: a forwarded delta that continues the response already playing leaves
\* the recorded response start as it is, whatever media time the first delta
\* of the response was forwarded at, 0 included.
C32_ResponseStartKept ==
    [][(/\ lastEvent' = "response.output_audio.delta"
        /\ deltaCount' = deltaCount + 1
        /\ streamSid # NoSid
        /\ responseStartTimestampTwilio # NoTs
        /\ responseStartedAt' = responseStartedAt)
       => responseStartTimestampTwilio' = responseStartTimestampTwilio]_vars

\* C33: every step that sends AI audio to the telephony leg records one
\* playback mark in markQueue for each payload it sends, the flush of the
\* deltas buffered before `start` included.
C33_MarkPerSentDelta ==
    [][Len(mediaSent') > Len(mediaSent)
       => Len(markQueue') = Len(markQueue) + (Len(mediaSent') - Len(mediaSent))]_vars

\* C34: an acknowledgment still in flight for a mark that a barge-in reset
\* discarded leaves markQueue as it is: it removes no mark of a later
\* response.
C34_StaleAckKeepsQueue ==
    [][(/\ lastEvent' = "mark"
        /\ marksInFlight' = marksInFlight - 1
        /\ staleAcks > 0)
       => markQueue' = markQueue]_vars

\* C35: while the caller is speaking (speech detected, the turn not yet
\* ended) no inactivity timer is pending.
C35_NoTimerWhileSpeaking ==
    isCapturingCallerSpeech => inactivityTimer = NoTimer

\* C36: the only inactivity timer that can be pending is the one whose handle
\* the handler holds, so at most one is pending at any time.
C36_OneInactivityTimer ==
    /\ \A t \in timers : t.kind = "inactivity" => t = inactivityTimer
    /\ Cardinality({t \in timers : t.kind = "inactivity"}) <= 1

\* C36 witness: the timer was armed again while the one armed before it was
\* pending (nothing fired, no speech, no close), and one timer is pending.
C36_Witness ==
    /\ doneCount >= 2 /\ fireCount = 0 /\ speechCount = 0 /\ connOpen
    /\ Cardinality({t \in timers : t.kind = "inactivity"}) = 1

\* C37: a transcription that completes while a later utterance is being
\* captured leaves the chunks captured for that utterance in place.
C37_LaterChunksKept ==
    [][(/\ lastEvent' = "transcription"
        /\ transcribing' = transcribing - 1
        /\ isCapturingCallerSpeech)
       => callerAudioChunks' = callerAudioChunks]_vars

\* C38: a directory lookup that returns writes only the property fields that
\* are still empty; a property_id or property_name already recorded stays.
C38_LookupKeepsRecorded ==
    [][(lastEvent' = "lookup.settled" /\ lookingUp' = lookingUp - 1)
       => /\ callState.property_id # "null"
                => callState'.property_id = callState.property_id
          /\ callState.property_name # "null"
                => callState'.property_name = callState.property_name]_vars

\* C39: a call executes at most one termination action (provider hang-up or
\* close of the telephony socket), however often end_call is invoked.
C39_AtMostOneTermination ==
    termCount <= 1

\* C40: whatever is sent to the AI provider before the session has been
\* configured begins with the session-configuration message.
C40_SessionUpdateFirst ==
    [][(aiOut' # <<>> /\ ~sessionInitialized) => aiOut'[1] = SessionUpdate]_vars

====
